---- MODULE Spec2Model ----
(***************************************************************************)
(* route53_register: main.go as a state machine.                           *)
(*                                                                         *)
(* The program is one sequential run of main(): validate the flags,        *)
(* resolve the hosted zone (lookup by name in a retry loop, or the         *)
(* explicit -zoneId), build the session of the metadata client, fetch      *)
(* one metadata value, and upsert one record.  The collaborators (AWS      *)
(* session construction, Route53, the EC2 metadata service) are the        *)
(* environment: each call draws its outcome from a small set.  Every call  *)
(* the program makes is recorded in a history variable.                    *)
(***************************************************************************)
EXTENDS Integers, Sequences, FiniteSets, TLC

\* ---------------------------------------------------------------- bounds
\* Largest number of hosted zones one ListHostedZonesByName response holds.
MaxZones == 2

\* ------------------------------------------------------ program constants
defaultTTL == 0
defaultWeight == 1

\* The nil error.
nil == "nil"

\* ------------------------------------------------------------ input sets
Hostnames == {"", "svc1"}
ZoneNames == {"", "internal.example.com."}
ZoneIdArgs == {"", "Z123"}

\* Identifiers the provider returns for hosted zones.
ProviderZoneIds == {"/hostedzone/Z123", "/hostedzone/Z999"}

\* Values the metadata service serves under each path.
MetadataValues(path) ==
    IF path = "/local-ipv4" THEN {"10.0.0.5", "10.0.0.6"}
    ELSE IF path = "/public-hostname" THEN {"ec2-1.compute.amazonaws.com"}
    ELSE {}

SeqsUpTo(S, n) == UNION {[1..k -> S] : k \in 0..n}

\* Outcomes of one getDNSHostedZoneID call, as the environment decides them:
\* the error of session.NewSession, the error of ListHostedZonesByName and
\* the zones of its response.
LookupOutcomes ==
    {[sessErr |-> "NewSessionError", listErr |-> nil, zones |-> <<>>]}
    \cup {[sessErr |-> nil, listErr |-> "ListHostedZonesByNameError", zones |-> <<>>]}
    \cup {[sessErr |-> nil, listErr |-> nil, zones |-> z] :
             z \in SeqsUpTo(ProviderZoneIds, MaxZones)}

VARIABLES
    flags,      \* the parsed command line
    pc,         \* position of main
    exitCode,   \* -1 while running, then the exit code of the process
    logLevel,   \* logLevel of main
    sum,        \* backoff counter of main
    zoneID,     \* zoneID of main
    err,        \* err of main
    value,      \* localIP / localName of main
    sessions,   \* history: session.NewSession calls
    zoneCalls,  \* history: getDNSHostedZoneID calls and what they returned
    listCalls,  \* history: ListHostedZonesByName requests
    sleeps,     \* history: time.Sleep durations, in seconds
    metaGets,   \* history: GetMetadata requests
    upserts,    \* history: ChangeResourceRecordSets requests
    log         \* history: lines written by log.Print / log.Fatal

vars == <<flags, pc, exitCode, logLevel, sum, zoneID, err, value, sessions,
          zoneCalls, listCalls, sleeps, metaGets, upserts, log>>

\* ------------------------------------------------------- pure functions

\* getDNSHostedZoneID (main.go:30-49): the pair it returns for an outcome.
getDNSHostedZoneID(o) ==
    IF o.sessErr # nil THEN [id |-> "", err |-> o.sessErr]
    ELSE IF o.listErr = nil /\ Len(o.zones) > 0
         THEN [id |-> o.zones[1], err |-> nil]
         ELSE [id |-> "", err |-> o.listErr]

\* main.go:163: the retry ceiling of the loop.
MutCeilingReached(s) == s >= 8
CeilingReached(s) == s > 8

\* main.go:166: the sleep before the next attempt, in seconds.
MutSleepSeconds(s) == s + 2
SleepSeconds(s) == s

\* main.go:167
NextSum(s) == s + 2

\* main.go:170
MutExplicitZoneID(arg) == arg
ExplicitZoneID(arg) == "/hostedzone/" \o arg

\* main.go:64 and main.go:104
MutRecordName(hostName, DNSName) == hostName \o DNSName
RecordName(hostName, DNSName) == hostName \o "." \o DNSName

\* main.go:177-185: the metadata path the -cname flag selects.
MutMetadataPath(cname) == "/local-ipv4"
MetadataPath(cname) == IF cname = FALSE THEN "/local-ipv4" ELSE "/public-hostname"

\* main.go:144-146
LogLevelOf(debug) ==
    IF debug THEN "LogDebugWithRequestErrors|LogDebugWithHTTPBody" ELSE "LogOff"

\* createARecord (main.go:58-82): the request it builds.
ARecordParams(hostedZoneID, DNSName, hostName, localIP) ==
    [HostedZoneId |-> hostedZoneID,
     Comment |-> "Host A Record Created",
     Changes |-> << [Action |-> "UPSERT",
                     Name |-> RecordName(hostName, DNSName),
                     Type |-> "A",
                     ResourceRecords |-> <<localIP>>,
                     SetIdentifier |-> hostName,
                     TTL |-> defaultTTL,
                     Weight |-> defaultWeight] >>]

\* createCNAMERecord (main.go:98-122): the request it builds.
CNAMERecordParams(hostedZoneID, DNSName, hostName, localName) ==
    [HostedZoneId |-> hostedZoneID,
     Comment |-> "Host CName Record Created",
     Changes |-> << [Action |-> "UPSERT",
                     Name |-> RecordName(hostName, DNSName),
                     Type |-> "CNAME",
                     ResourceRecords |-> <<localName>>,
                     SetIdentifier |-> hostName,
                     TTL |-> defaultTTL,
                     Weight |-> defaultWeight] >>]

\* ------------------------------------------------------------- logging
Line(level, site, msg) == [level |-> level, site |-> site, msg |-> msg]

\* log.Fatal: the line is written and the process exits with status 1.
Fatal(site, msg) ==
    /\ log' = Append(log, Line("fatal", site, msg))
    /\ pc' = "exited"
    /\ exitCode' = 1

\* ---------------------------------------------------------------- Init
Init ==
    /\ flags \in [hostname : Hostnames, cname : BOOLEAN, debug : BOOLEAN,
                  DNSName : ZoneNames, zoneIDArg : ZoneIdArgs]
    /\ pc = "parsed"
    /\ exitCode = -1
    /\ logLevel = "LogOff"
    /\ sum = 0
    /\ zoneID = ""
    /\ err = nil
    /\ value = ""
    /\ sessions = <<>>
    /\ zoneCalls = <<>>
    /\ listCalls = <<>>
    /\ sleeps = <<>>
    /\ metaGets = <<>>
    /\ upserts = <<>>
    /\ log = <<>>

\* -------------------------------------------------------------- actions

\* ValidateFlags without the -hostname check of main.go:152-154.
MutValidateFlags ==
    /\ pc = "parsed"
    /\ logLevel' = LogLevelOf(flags.debug)
    /\ IF flags.DNSName = "" /\ flags.zoneIDArg = ""
       THEN Fatal("zone-flags", "Either zonename or zoneId parameter is required")
       ELSE /\ pc' = "zone"
            /\ UNCHANGED <<exitCode, log>>
    /\ UNCHANGED <<flags, sum, zoneID, err, value, sessions, zoneCalls,
                   listCalls, sleeps, metaGets, upserts>>

\* main.go:144-154: the debug flag and the two required-flag checks.
ValidateFlags ==
    /\ pc = "parsed"
    /\ logLevel' = LogLevelOf(flags.debug)
    /\ IF flags.DNSName = "" /\ flags.zoneIDArg = ""
       THEN Fatal("zone-flags", "Either zonename or zoneId parameter is required")
       ELSE IF flags.hostname = ""
            THEN Fatal("hostname-flag", "Either host or ip params are needed!")
            ELSE /\ pc' = "zone"
                 /\ UNCHANGED <<exitCode, log>>
    /\ UNCHANGED <<flags, sum, zoneID, err, value, sessions, zoneCalls,
                   listCalls, sleeps, metaGets, upserts>>

\* main.go:156-168: one iteration of the lookup loop, the call of
\* getDNSHostedZoneID (main.go:30-49) included.
LookupZone ==
    /\ pc = "zone"
    /\ flags.zoneIDArg = ""
    /\ \E o \in LookupOutcomes :
         LET r == getDNSHostedZoneID(o) IN
         /\ sessions' = Append(sessions, [phase |-> "lookup", logLevel |-> "default",
                                          err |-> o.sessErr])
         /\ listCalls' = IF o.sessErr = nil
                         THEN Append(listCalls, [DNSName |-> flags.DNSName])
                         ELSE listCalls
         /\ zoneCalls' = Append(zoneCalls, r)
         /\ zoneID' = r.id
         /\ err' = r.err
         /\ IF r.err = nil
            THEN /\ pc' = "session"
                 /\ UNCHANGED <<exitCode, log, sleeps, sum>>
            ELSE IF CeilingReached(sum)
                 THEN /\ Fatal("zone", r.err)
                      /\ UNCHANGED <<sleeps, sum>>
                 ELSE /\ sleeps' = Append(sleeps, SleepSeconds(sum))
                      /\ sum' = NextSum(sum)
                      /\ UNCHANGED <<pc, exitCode, log>>
    /\ UNCHANGED <<flags, logLevel, value, metaGets, upserts>>

\* main.go:169-171: the explicit zone id.
UseExplicitZone ==
    /\ pc = "zone"
    /\ flags.zoneIDArg # ""
    /\ zoneID' = ExplicitZoneID(flags.zoneIDArg)
    /\ pc' = "session"
    /\ UNCHANGED <<flags, exitCode, logLevel, sum, err, value, sessions,
                   zoneCalls, listCalls, sleeps, metaGets, upserts, log>>

\* NewMetadataSession with the error of main.go:173 only printed.
MutNewMetadataSession ==
    /\ pc = "session"
    /\ \E e \in {nil, "NewSessionError"} :
         /\ sessions' = Append(sessions, [phase |-> "metadata", logLevel |-> "default",
                                          err |-> e])
         /\ err' = e
         /\ log' = IF e # nil THEN Append(log, Line("print", "session", e)) ELSE log
         /\ pc' = "fetch"
         /\ UNCHANGED exitCode
    /\ UNCHANGED <<flags, logLevel, sum, zoneID, value, zoneCalls, listCalls,
                   sleeps, metaGets, upserts>>

\* main.go:173-175: the session of the metadata client.
NewMetadataSession ==
    /\ pc = "session"
    /\ \E e \in {nil, "NewSessionError"} :
         /\ sessions' = Append(sessions, [phase |-> "metadata", logLevel |-> "default",
                                          err |-> e])
         /\ err' = e
         /\ IF e # nil
            THEN Fatal("session", e)
            ELSE /\ pc' = "fetch"
                 /\ UNCHANGED <<exitCode, log>>
    /\ UNCHANGED <<flags, logLevel, sum, zoneID, value, zoneCalls, listCalls,
                   sleeps, metaGets, upserts>>

\* FetchMetadata with the error of GetMetadata only printed.
MutFetchMetadata ==
    /\ pc = "fetch"
    /\ LET path == MetadataPath(flags.cname) IN
       \/ /\ metaGets' = Append(metaGets, [path |-> path, err |-> "GetMetadataError",
                                           value |-> ""])
          /\ log' = Append(log, Line("print", "fetch", "GetMetadataError"))
          /\ value' = ""
       \/ \E v \in MetadataValues(path) :
            /\ metaGets' = Append(metaGets, [path |-> path, err |-> nil, value |-> v])
            /\ value' = v
            /\ UNCHANGED log
    /\ pc' = "publish"
    /\ UNCHANGED <<flags, exitCode, logLevel, sum, zoneID, err, sessions, zoneCalls,
                   listCalls, sleeps, upserts>>

\* main.go:177-179 and 183-185: the one GetMetadata call.
FetchMetadata ==
    /\ pc = "fetch"
    /\ LET path == MetadataPath(flags.cname) IN
       \/ /\ metaGets' = Append(metaGets, [path |-> path, err |-> "GetMetadataError",
                                           value |-> ""])
          /\ Fatal("fetch", "GetMetadataError")
          /\ UNCHANGED value
       \/ \E v \in MetadataValues(path) :
            /\ metaGets' = Append(metaGets, [path |-> path, err |-> nil, value |-> v])
            /\ value' = v
            /\ pc' = "publish"
            /\ UNCHANGED <<exitCode, log>>
    /\ UNCHANGED <<flags, logLevel, sum, zoneID, err, sessions, zoneCalls,
                   listCalls, sleeps, upserts>>

\* The body shared by createARecord (main.go:51-89) and createCNAMERecord
\* (main.go:91-129), followed by the caller's log line and the return of main.
Publish(params, created, failed) ==
    /\ \/ \* session.NewSession fails: the helper returns the error
          /\ sessions' = Append(sessions, [phase |-> "publish", logLevel |-> logLevel,
                                           err |-> "NewSessionError"])
          /\ log' = Append(log, Line("print", "main", failed))
          /\ UNCHANGED upserts
       \/ \* ChangeResourceRecordSets fails: logErrorNoFatal, then the caller's line
          /\ sessions' = Append(sessions, [phase |-> "publish", logLevel |-> logLevel,
                                           err |-> nil])
          /\ upserts' = Append(upserts, [params |-> params,
                                         err |-> "ChangeResourceRecordSetsError"])
          /\ log' = log \o << Line("print", "publish", "ChangeResourceRecordSetsError"),
                              Line("print", "main", failed) >>
       \/ \* ChangeResourceRecordSets succeeds
          /\ sessions' = Append(sessions, [phase |-> "publish", logLevel |-> logLevel,
                                           err |-> nil])
          /\ upserts' = Append(upserts, [params |-> params, err |-> nil])
          /\ log' = Append(log, Line("print", "publish", created))
    /\ pc' = "exited"
    /\ exitCode' = 0
    /\ UNCHANGED <<flags, logLevel, sum, zoneID, err, value, zoneCalls,
                   listCalls, sleeps, metaGets>>

\* CreateARecord with a failed upsert passed to logErrorAndFail.
MutCreateARecord ==
    /\ pc = "publish"
    /\ flags.cname = FALSE
    /\ sessions' = Append(sessions, [phase |-> "publish", logLevel |-> logLevel,
                                     err |-> nil])
    /\ \/ /\ upserts' = Append(upserts,
                 [params |-> ARecordParams(zoneID, flags.DNSName, flags.hostname, value),
                  err |-> "ChangeResourceRecordSetsError"])
          /\ Fatal("publish", "ChangeResourceRecordSetsError")
       \/ /\ upserts' = Append(upserts,
                 [params |-> ARecordParams(zoneID, flags.DNSName, flags.hostname, value),
                  err |-> nil])
          /\ log' = Append(log, Line("print", "publish", "Record created"))
          /\ pc' = "exited"
          /\ exitCode' = 0
    /\ UNCHANGED <<flags, logLevel, sum, zoneID, err, value, zoneCalls,
                   listCalls, sleeps, metaGets>>

\* main.go:180-182 with createARecord (main.go:51-89).
CreateARecord ==
    /\ pc = "publish"
    /\ flags.cname = FALSE
    /\ Publish(ARecordParams(zoneID, flags.DNSName, flags.hostname, value),
               "Record " \o flags.hostname \o " created, resolves to " \o value,
               "Error creating host A record")

\* main.go:186-188 with createCNAMERecord (main.go:91-129).
CreateCNAMERecord ==
    /\ pc = "publish"
    /\ flags.cname # FALSE
    /\ Publish(CNAMERecordParams(zoneID, flags.DNSName, flags.hostname, value),
               "Record " \o flags.hostname \o " created, resolves to " \o value,
               "Error creating host CName record")

Next ==
    \/ ValidateFlags
    \/ LookupZone
    \/ UseExplicitZone
    \/ NewMetadataSession
    \/ FetchMetadata
    \/ CreateARecord
    \/ CreateCNAMERecord

Spec == Init /\ [][Next]_vars

\* ================================================================ claims

Last(s) == s[Len(s)]

IsPrefix(s, t) == Len(s) <= Len(t) /\ \A i \in 1..Len(s) : s[i] = t[i]

\* The run has ended in the log.Fatal of the lookup loop (main.go:164).
ZoneFatal ==
    /\ pc = "exited"
    /\ exitCode = 1
    /\ log # <<>>
    /\ Last(log).level = "fatal"
    /\ Last(log).site = "zone"

AllLookupsFailed == \A i \in 1..Len(zoneCalls) : zoneCalls[i].err # nil

FlagsValid ==
    /\ flags.hostname # ""
    /\ ~(flags.DNSName = "" /\ flags.zoneIDArg = "")

NoNetworkCall ==
    /\ sessions = <<>>
    /\ zoneCalls = <<>>
    /\ listCalls = <<>>
    /\ metaGets = <<>>
    /\ upserts = <<>>

\* ---- C1 ----------------------------------------------------------------
\* C1 as stated: with -zoneId empty and every getDNSHostedZoneID call
\* returning an error, the number of calls made before the fatal exit is
\* between 1 and 5.
C1_AtMostFiveLookups ==
    (flags.zoneIDArg = "" /\ AllLookupsFailed /\ ZoneFatal)
        => (Len(zoneCalls) >= 1 /\ Len(zoneCalls) <= 5)

\* C1 as amended: with -zoneId empty and every getDNSHostedZoneID call
\* returning an error, exactly 6 calls are made before the fatal exit, and no
\* run makes more than 6.
C1_ExactlySixLookups ==
    /\ Len(zoneCalls) <= 6
    /\ (flags.zoneIDArg = "" /\ AllLookupsFailed /\ ZoneFatal)
           => Len(zoneCalls) = 6

C1_Witness ==
    /\ flags.zoneIDArg = ""
    /\ Len(zoneCalls) = 6
    /\ AllLookupsFailed
    /\ ZoneFatal

\* ---- C2 ----------------------------------------------------------------
\* C2: getDNSHostedZoneID never returns an empty identifier together with a
\* nil error, and the zone identifier of every ChangeResourceRecordSets
\* request is non-empty.
C2_NoEmptyZoneId ==
    /\ \A i \in 1..Len(zoneCalls) : ~(zoneCalls[i].id = "" /\ zoneCalls[i].err = nil)
    /\ \A i \in 1..Len(upserts) : upserts[i].params.HostedZoneId # ""

\* ---- C3 ----------------------------------------------------------------
\* C3: with -zoneId supplied, with or without -zonename, no zone lookup is
\* made and every upsert names the zone "/hostedzone/" followed by the
\* supplied id.
C3_ExplicitZoneNoLookup ==
    flags.zoneIDArg # "" =>
        /\ zoneCalls = <<>>
        /\ listCalls = <<>>
        /\ \A i \in 1..Len(sessions) : sessions[i].phase # "lookup"
        /\ \A i \in 1..Len(upserts) :
               upserts[i].params.HostedZoneId = "/hostedzone/" \o flags.zoneIDArg

C3_Witness ==
    /\ flags.zoneIDArg # ""
    /\ flags.DNSName # ""
    /\ Len(upserts) = 1
    /\ upserts[1].params.HostedZoneId = "/hostedzone/Z123"

C5_UpsertFailureNotFatal ==
    \A i \in 1..Len(upserts) :
        /\ Len(upserts) = 1
        /\ pc = "exited"
        /\ exitCode = 0
        /\ \A j \in 1..Len(log) : log[j].level # "fatal"
        /\ upserts[i].err # nil =>
               \E j \in 1..Len(log) :
                   log[j] = Line("print", "publish", upserts[i].err)

C5_Witness ==
    /\ Len(upserts) = 1
    /\ upserts[1].err # nil
    /\ exitCode = 0

\* ---- C6 ----------------------------------------------------------------
\* C6: with -hostname empty, or -zonename and -zoneId both empty, the run
\* ends in a fatal exit and makes no session, zone lookup, metadata fetch or
\* upsert.
C6_InvalidFlagsNoNetwork ==
    ~FlagsValid =>
        /\ NoNetworkCall
        /\ pc \in {"parsed", "exited"}
        /\ pc = "exited" =>
               /\ exitCode = 1
               /\ Len(log) = 1
               /\ log[1].level = "fatal"

C6_Witness ==
    /\ flags.hostname = ""
    /\ flags.DNSName # ""
    /\ pc = "exited"
    /\ exitCode = 1

C8_OneUpsertOfOneRecord ==
    /\ Len(upserts) <= 1
    /\ (/\ pc = "exited"
        /\ sessions # <<>>
        /\ Last(sessions).phase = "publish"
        /\ Last(sessions).err = nil)
           => /\ FlagsValid
              /\ Len(upserts) = 1
    /\ \A i \in 1..Len(upserts) :
           LET p == upserts[i].params IN
           /\ Len(p.Changes) = 1
           /\ p.Changes[1].Action = "UPSERT"
           /\ p.Changes[1].Name = flags.hostname \o "." \o flags.DNSName
           /\ Len(p.Changes[1].ResourceRecords) = 1
           /\ p.Changes[1].TTL = 0
           /\ p.Changes[1].Weight = 1
           /\ p.Changes[1].Type \in {"A", "CNAME"}

C8_Witness ==
    /\ flags.zoneIDArg = ""
    /\ ~flags.cname
    /\ Len(upserts) = 1
    /\ upserts[1].params.Changes[1].Name = "svc1.internal.example.com."
    /\ upserts[1].params.Changes[1].Type = "A"

PhaseRank(p) ==
    IF p = "parsed" THEN 0
    ELSE IF p = "zone" THEN 1
    ELSE IF p = "session" THEN 2
    ELSE IF p = "fetch" THEN 3
    ELSE IF p = "publish" THEN 4
    ELSE 5

ZoneResolved ==
    IF flags.zoneIDArg = ""
    THEN zoneCalls # <<>> /\ Last(zoneCalls).err = nil
    ELSE zoneCalls = <<>>

C10_State ==
    /\ Len(metaGets) <= 1
    /\ metaGets # <<>> =>
           /\ ZoneResolved
           /\ pc \in {"publish", "exited"}
    /\ upserts # <<>> => (metaGets # <<>> /\ metaGets[1].err = nil)
    /\ (metaGets # <<>> /\ metaGets[1].err # nil) =>
           /\ pc = "exited"
           /\ exitCode = 1
           /\ Last(log).level = "fatal"
           /\ upserts = <<>>

C10_Step ==
    /\ PhaseRank(pc') >= PhaseRank(pc)
    /\ metaGets # <<>> => (zoneCalls' = zoneCalls /\ listCalls' = listCalls
                           /\ metaGets' = metaGets)
    /\ upserts # <<>> => UNCHANGED vars

\* C10: the phases run in the order resolve zone, fetch metadata, publish
\* with no step back: one GET, made after zone resolution has finished and
\* followed by no zone lookup; the upsert only after a successful fetch; a
\* failed fetch is fatal, not retried and followed by no upsert.
C10_PhaseOrder == []C10_State /\ [][C10_Step]_vars

C10_Witness ==
    /\ Len(zoneCalls) >= 2
    /\ Len(metaGets) = 1
    /\ Len(upserts) = 1

====
